---- MODULE Spec2Model ----
(***************************************************************************)
(* PHARMAKON: state classification engine.                                 *)
(*                                                                         *)
(* Numbers.  The program computes on Python floats.  The model computes on *)
(* exact decimals: a state variable or a threshold is an integer count of  *)
(* hundredths (ONE = 1.0), a weight is a count of 1e-6 (WONE = 1.0; the    *)
(* startup check of the table compares sums to 1.0 at a relative tolerance *)
(* of 1e-3, which coarser weights cannot tell from an absolute one), a     *)
(* composite is a count of 1e-8, a triangle score a count of 1e-9, and a   *)
(* quotient is kept as an exact fraction [n, d].  Binary rounding of the   *)
(* float operations is not modelled.                                       *)
(*                                                                         *)
(* Results.  A call returns Ok(v) or Raise(e); the classifiers of v0.1     *)
(* return (label, description) and the model keeps the label.              *)
(***************************************************************************)
EXTENDS Integers, Sequences, FiniteSets, TLC

VARIABLES
    fs,       \* the files: weights_v10.json and the file of save_state
    debug,    \* the interpreter's __debug__: FALSE under -O, which drops asserts
    mstate,   \* the MinimalState instance (PHARMAKON_v0.1.py, 31-58)
    rstate,   \* the RefinedState instance (PHARMAKON_v0.1.py, 60-94)
    dstate,   \* the detailed State dict (PHARMAKON_V10_A.py, 75)
    WEIGHTS,  \* the module's weight table (PHARMAKON_V10_A.py, 114)
    op,       \* the operation the caller executed last ("start": none yet)
    arg,      \* its arguments
    ret       \* what it returned or raised

vars == <<fs, debug, mstate, rstate, dstate, WEIGHTS, op, arg, ret>>

\* 1.0 in hundredths
ONE == 100

\* number of intervals of the input grid of the minimal model
GridPoints == 20
\* number of intervals of the input grid of the refined model
RGridPoints == 10

GridVal(i, n) == (i * ONE) \div n

Grid == {GridVal(i, GridPoints) : i \in 0..GridPoints}
RawGrid == {GridVal(i, GridPoints) : i \in -1..(GridPoints + 1)}
RGrid == {GridVal(i, RGridPoints) : i \in 0..RGridPoints}
RRawGrid == {GridVal(i, RGridPoints) : i \in -1..(RGridPoints + 1)}

Max(a, b) == IF a >= b THEN a ELSE b
Min(a, b) == IF a <= b THEN a ELSE b
Abs(a) == IF a >= 0 THEN a ELSE 0 - a

None == [kind |-> "None"]
Ok(v) == [kind |-> "ok", val |-> v]
Raise(e) == [kind |-> "raise", exc |-> e]

\* no such file
NoFile == [kind |-> "absent"]

RECURSIVE GCD(_, _)
GCD(a, b) == IF b = 0 THEN a ELSE GCD(b, a % b)

\* exact fractions n/d (n >= 0, d > 0), kept in lowest terms
Rat(n, d) == LET g == GCD(n, d) IN [n |-> n \div g, d |-> d \div g]
RLt(a, b) == a.n * b.d < b.n * a.d
RLe(a, b) == a.n * b.d <= b.n * a.d
REq(a, b) == a.n * b.d = b.n * a.d
\* a count of hundredths as a fraction
Hundredths(x) == Rat(x, ONE)

-----------------------------------------------------------------------------
(* MinimalState                                                            *)

\* min(1.0, x) alone: no lower bound
Clamp_no_lower(x) == Min(ONE, x)

\* max(0.0, min(1.0, x))
Clamp(x) == Max(0, Min(ONE, x))

MinimalState(S, H, B) == [S |-> Clamp(S), H |-> Clamp(H), B |-> Clamp(B)]

MinimalDefault == MinimalState(50, 80, 40)

classify_position_late_delusion(state) ==
    LET S == state.S  H == state.H  B == state.B IN
    IF S < 20 THEN "Ego_Dissolution"
    ELSE IF H < 20 THEN "Energy_Collapse"
    ELSE IF S > 70 /\ H > 60 /\ B > 60 THEN "Position_1_Epistemic_Arrogance"
    ELSE IF B > 80 THEN "Delusional_Defense"
    ELSE IF S > 70 /\ H > 60 /\ B < 40 THEN "Position_3_Integrated_Competence"
    ELSE IF S > 50 /\ B > 40 /\ B < 70 THEN "Position_2_Meta_Awareness_Trap"
    ELSE "Transitional_State"

classify_position(state) ==
    LET S == state.S  H == state.H  B == state.B IN
    IF S < 20 THEN "Ego_Dissolution"
    ELSE IF H < 20 THEN "Energy_Collapse"
    ELSE IF B > 80 THEN "Delusional_Defense"
    ELSE IF S > 70 /\ H > 60 /\ B > 60 THEN "Position_1_Epistemic_Arrogance"
    ELSE IF S > 70 /\ H > 60 /\ B < 40 THEN "Position_3_Integrated_Competence"
    ELSE IF S > 50 /\ B > 40 /\ B < 70 THEN "Position_2_Meta_Awareness_Trap"
    ELSE "Transitional_State"

\* compute_nonlinear_interactions with Delusional_Defense = B * S for every B
compute_nonlinear_interactions_unguarded(state) ==
    LET S == state.S  H == state.H  B == state.B IN
    [Bias_Meaningless   |-> IF S < 30 THEN Rat(ONE - S, ONE) ELSE Rat(0, 1),
     Energy_Stress      |-> Rat(ONE - H, ONE),
     Delusional_Defense |-> Rat(B * S, ONE * ONE),
     Stability          |-> Rat(S * H * (ONE - B), ONE * ONE * ONE),
     Arrogance_Risk     |-> Rat(S * B, ONE * ONE)]

\* the dict of interaction metrics, each an exact fraction
compute_nonlinear_interactions(state) ==
    LET S == state.S  H == state.H  B == state.B IN
    [Bias_Meaningless   |-> IF S < 30 THEN Rat(ONE - S, ONE) ELSE Rat(0, 1),
     Energy_Stress      |-> Rat(ONE - H, ONE),
     Delusional_Defense |-> IF B > 70 THEN Rat(B * S, ONE * ONE) ELSE Rat(0, 1),
     Stability          |-> Rat(S * H * (ONE - B), ONE * ONE * ONE),
     Arrogance_Risk     |-> Rat(S * B, ONE * ONE)]

\* the decimal digits of a JSON number
Digit(d) == <<"0", "1", "2", "3", "4", "5", "6", "7", "8", "9">>[d + 1]
DigitValue(tok) == CHOOSE d \in 0..9 : Digit(d) = tok

\* a float written with one digit after the point ("%.1f"-like, truncating)
FloatRepr_one_decimal(x) ==
    LET a == Abs(x) IN
    (IF x < 0 THEN <<"-">> ELSE <<>>)
        \o <<Digit(a \div ONE), ".", Digit((a % ONE) \div 10)>>

\* json.dump of a float: float.__repr__, the shortest decimal that reads back
\* as the same float; for a value of x hundredths that is the integer part, a
\* point, and the one or two digits of the hundredths, e.g. 0.85, 0.5, 1.0
FloatRepr(x) ==
    LET a == Abs(x)
        t == (a % ONE) \div 10
        u == a % 10
    IN  (IF x < 0 THEN <<"-">> ELSE <<>>)
        \o <<Digit(a \div ONE), ".">>
        \o (IF u = 0 THEN <<Digit(t)>> ELSE <<Digit(t), Digit(u)>>)

\* json.load of a number text: the float nearest to the decimal, in hundredths
ParseFloat(text) ==
    LET neg  == text[1] = "-"
        body == IF neg THEN Tail(text) ELSE text
        val  == ONE * DigitValue(body[1]) + 10 * DigitValue(body[3])
                + (IF Len(body) >= 4 THEN DigitValue(body[4]) ELSE 0)
    IN  IF neg THEN 0 - val ELSE val

\* the JSON document of a saved state
StateFile(S, H, B) ==
    [kind |-> "file", S |-> FloatRepr(S), H |-> FloatRepr(H), B |-> FloatRepr(B),
     version |-> "0.1"]

\* save_state: the document json.dump writes for the state
save_state(state) == StateFile(state.S, state.H, state.B)

\* load_state: open() fails on a missing file; otherwise a new MinimalState
\* from the three numbers of the document
load_state ==
    IF fs.state = NoFile THEN Raise("FileNotFoundError")
    ELSE Ok(MinimalState(ParseFloat(fs.state.S), ParseFloat(fs.state.H),
                         ParseFloat(fs.state.B)))

-----------------------------------------------------------------------------
(* RefinedState                                                            *)

RefinedState(S, Hs, Hc, B) ==
    [S |-> Clamp(S), H_somatic |-> Clamp(Hs), H_cognitive |-> Clamp(Hc), B |-> Clamp(B)]

RefinedDefault == RefinedState(50, 80, 60, 40)

RefinedFields == {"S", "H_somatic", "H_cognitive", "B"}

\* min(x, 1.0) on fractions
RCap(x) == IF RLt(Rat(1, 1), x) THEN Rat(1, 1) ELSE x

bias_amplification_uncapped(state) ==
    IF state.H_cognitive < 30
    THEN Rat(state.B * state.H_somatic * (ONE - state.S),
             Max(state.H_cognitive, 10) * ONE * ONE)
    ELSE Hundredths(state.B)

\* amplification = (H_somatic / max(H_cognitive, 0.1)) * (1 - S);
\* min(B * amplification, 1.0)
bias_amplification(state) ==
    IF state.H_cognitive < 30
    THEN RCap(Rat(state.B * state.H_somatic * (ONE - state.S),
                  Max(state.H_cognitive, 10) * ONE * ONE))
    ELSE Hundredths(state.B)

energy_mismatch_reversed(state) == Max(0, state.H_cognitive - state.H_somatic)

energy_mismatch(state) == Max(0, state.H_somatic - state.H_cognitive)

classify_refined_position_raw_bias(state) ==
    LET S == state.S
        H_somatic == state.H_somatic
        H_cognitive == state.H_cognitive
        B == Hundredths(state.B)
        mismatch == energy_mismatch(state)
    IN
    IF S < 20 THEN "Ego_Dissolution"
    ELSE IF H_cognitive < 20 THEN "Cognitive_Collapse"
    ELSE IF mismatch > 40 THEN "Stress_Amplification"
    ELSE IF S > 70 /\ (H_somatic > 60 \/ H_cognitive > 60) /\ RLt(Hundredths(60), B)
         THEN "Position_1_Epistemic_Arrogance"
    ELSE IF S > 70 /\ Abs(H_somatic - H_cognitive) < 20 /\ RLt(B, Hundredths(40))
         THEN "Position_3_Integrated_Competence"
    ELSE IF S > 50 /\ RLt(Hundredths(40), B) /\ RLt(B, Hundredths(70))
         THEN "Position_2_Meta_Awareness_Trap"
    ELSE "Transitional_State"

classify_refined_position(state) ==
    LET S == state.S
        H_somatic == state.H_somatic
        H_cognitive == state.H_cognitive
        B == bias_amplification(state)
        mismatch == energy_mismatch(state)
    IN
    IF S < 20 THEN "Ego_Dissolution"
    ELSE IF H_cognitive < 20 THEN "Cognitive_Collapse"
    ELSE IF mismatch > 40 THEN "Stress_Amplification"
    ELSE IF S > 70 /\ (H_somatic > 60 \/ H_cognitive > 60) /\ RLt(Hundredths(60), B)
         THEN "Position_1_Epistemic_Arrogance"
    ELSE IF S > 70 /\ Abs(H_somatic - H_cognitive) < 20 /\ RLt(B, Hundredths(40))
         THEN "Position_3_Integrated_Competence"
    ELSE IF S > 50 /\ RLt(Hundredths(40), B) /\ RLt(B, Hundredths(70))
         THEN "Position_2_Meta_Awareness_Trap"
    ELSE "Transitional_State"

-----------------------------------------------------------------------------
(* Detailed state and the weight table                                     *)

\* 1.0 as a weight (1e-6 each)
WONE == ONE * ONE * ONE
\* a weight given in hundredths
W(x) == x * ONE * ONE

_DEFAULT_WEIGHTS ==
    [stress |-> [Fear |-> W(30), Anger |-> W(20), Cortisol |-> W(25),
                 Sympathetic_Surge |-> W(25)],
     positive |-> [Joy |-> W(30), Love |-> W(20), Gratitude |-> W(20),
                   Contentment |-> W(15), Hope |-> W(15)],
     bias_cascade |-> [Confirmation |-> W(35), Dunning_Kruger |-> W(30),
                       Overconfidence |-> W(25), Hindsight |-> W(10)]]

\* if _WEIGHTS_FILE.exists(): return json.load(fh); return _DEFAULT_WEIGHTS
_load_weights == IF fs.weights # NoFile THEN fs.weights ELSE _DEFAULT_WEIGHTS

RECURSIVE SumValues(_, _)
\* sum(vec.values())
SumValues(ks, vec) ==
    IF ks = {} THEN 0
    ELSE LET k == CHOOSE x \in ks : TRUE IN vec[k] + SumValues(ks \ {k}, vec)

\* math.isclose(s, 1.0, abs_tol=1e-3) instead of rel_tol=1e-3
isclose_one_abs(s) == Abs(s - WONE) * 1000 <= WONE

\* math.isclose(s, 1.0, rel_tol=1e-3): abs(s - 1.0) <= 1e-3 * max(abs(s), 1.0)
isclose_one(s) == Abs(s - WONE) * 1000 <= Max(Abs(s), WONE)

\* the module-level loop: assert isclose(sum(vec.values()), 1.0, rel_tol=1e-3)
\* for every vector; an assert is not executed when __debug__ is false
SanityCheck(table) ==
    IF debug /\ \E comp \in DOMAIN table :
                   ~isclose_one(SumValues(DOMAIN table[comp], table[comp]))
    THEN Raise("AssertionError")
    ELSE None

EmptyState == [k \in {} |-> 0]

\* state.get(k, default)
Get(state, k, default) == IF k \in DOMAIN state THEN state[k] ELSE default

RECURSIVE SumOver(_, _, _)
\* sum(state.get(k, 0.0) * w for k, w in vec.items()) over the keys ks of vec
SumOver(ks, vec, state) ==
    IF ks = {} THEN 0
    ELSE LET k == CHOOSE x \in ks : TRUE
         IN Get(state, k, 0) * vec[k] + SumOver(ks \ {k}, vec, state)

RECURSIVE Dot(_, _, _)
\* the sum of state[k] * vec[k] over the keys ks, all of them keys of both
Dot(ks, vec, state) ==
    IF ks = {} THEN 0
    ELSE LET k == CHOOSE x \in ks : TRUE
         IN state[k] * vec[k] + Dot(ks \ {k}, vec, state)

\* state[k] instead of state.get(k, 0.0): a missing key raises
compute_composite_strict(name, state) ==
    IF name \notin DOMAIN WEIGHTS THEN Raise("KeyError")
    ELSE IF ~(DOMAIN WEIGHTS[name] \subseteq DOMAIN state) THEN Raise("KeyError")
    ELSE Ok(Dot(DOMAIN WEIGHTS[name], WEIGHTS[name], state))

\* WEIGHTS.get(name, {}) instead of WEIGHTS[name]: an unknown name scores 0
compute_composite_lenient(name, state) ==
    IF name \notin DOMAIN WEIGHTS THEN Ok(0)
    ELSE Ok(SumOver(DOMAIN WEIGHTS[name], WEIGHTS[name], state))

\* vec = WEIGHTS[name] raises KeyError for a name that is not in the table.
\* The result counts 1e-8.
compute_composite(name, state) ==
    IF name \notin DOMAIN WEIGHTS THEN Raise("KeyError")
    ELSE Ok(SumOver(DOMAIN WEIGHTS[name], WEIGHTS[name], state))

\* Strings that the program searches or rewrites are sequences of tokens,
\* words and the separators between them.
Position_1_Epistemic_Arrogance == <<"Position", "_", "1", "_", "Epistemic", "_", "Arrogance">>
Position_2_Meta_Awareness_Trap ==
    <<"Position", "_", "2", "_", "Meta", "_", "Awareness", "_", "Trap">>
Position_3_Integrated_Competence == <<"Position", "_", "3", "_", "Integrated", "_", "Competence">>

\* the string returned as it is, nothing replaced
Replace_nothing(str, old, new) == str

\* str.replace(old, new) for a one-token old
Replace(str, old, new) == [i \in DOMAIN str |-> IF str[i] = old THEN new ELSE str[i]]

TriangleInputs_zero_defaults(state) ==
    [dk |-> Get(state, "Dunning_Kruger", 0),
     oc |-> Get(state, "Overconfidence", 0),
     mc |-> Get(state, "Meta_Cognition", 0),
     lu |-> Get(state, "Lucidity", 0),
     ro |-> Get(state, "Recursive_Overthinking", 0),
     eo |-> Get(state, "Ego_Oscillation", 0)]

\* the key variables and their defaults
TriangleInputs(state) ==
    [dk |-> Get(state, "Dunning_Kruger", 30),
     oc |-> Get(state, "Overconfidence", 30),
     mc |-> Get(state, "Meta_Cognition", 50),
     lu |-> Get(state, "Lucidity", 100),
     ro |-> Get(state, "Recursive_Overthinking", 0),
     eo |-> Get(state, "Ego_Oscillation", 0)]

\* The scores count 1e-9: a coefficient in tenths times a value in hundredths
\* counts 1e-3, and 0.2 times the composite (1e-8) counts 1e-9.
pos1_score(v) == ((4 * (v.dk + v.oc)) \div 2 + 3 * (ONE - v.mc) + 3 * (ONE - v.lu)) * WONE

pos2_score(v, bias_cascade) == (3 * v.mc + 3 * v.lu + 2 * v.ro) * WONE + 2 * bias_cascade

pos3_score(v) == (3 * v.mc + 3 * v.lu + 2 * (ONE - v.ro) + 2 * (ONE - v.eo)) * WONE

\* the maximum of the values of an insertion-ordered dict of <<key, value>> pairs
MaxValue(scores) == CHOOSE m \in {scores[i][2] : i \in DOMAIN scores} :
                       \A i \in DOMAIN scores : scores[i][2] <= m

\* the last maximal key instead of the first
max_pos_last(scores) ==
    scores[CHOOSE i \in DOMAIN scores :
              /\ scores[i][2] = MaxValue(scores)
              /\ \A j \in DOMAIN scores : j > i => scores[j][2] < MaxValue(scores)][1]

\* max(scores, key=scores.get): the dict is walked in insertion order and the
\* first key whose value is maximal is kept
max_pos(scores) ==
    scores[CHOOSE i \in DOMAIN scores :
              /\ scores[i][2] = MaxValue(scores)
              /\ \A j \in DOMAIN scores : j < i => scores[j][2] < MaxValue(scores)][1]

classify_triangle_position(state) ==
    LET v == TriangleInputs(state)
        bc == compute_composite("bias_cascade", state)
    IN IF bc.kind = "raise" THEN bc
       ELSE LET scores == << <<Position_1_Epistemic_Arrogance, pos1_score(v)>>,
                             <<Position_2_Meta_Awareness_Trap, pos2_score(v, bc.val)>>,
                             <<Position_3_Integrated_Competence, pos3_score(v)>> >>
                position_name == Replace(max_pos(scores), "_", " ")
            IN Ok(<<position_name, scores>>)

\* the keys and the values the detailed states are built from
DKeys == {"Dunning_Kruger", "Overconfidence", "Meta_Cognition", "Lucidity",
          "Recursive_Overthinking", "Ego_Oscillation", "Confirmation", "Hindsight",
          "Fear"}
DGrid == {0, 20, 60, 80, 100}
\* at most this many keys are present in a detailed state
MaxKeys == 3
DStates == UNION {[ks -> DGrid] : ks \in {x \in SUBSET DKeys : Cardinality(x) <= MaxKeys}}

\* the names compute_composite is called with; the last two are in no table
CompositeNames == {"stress", "positive", "bias_cascade", "anxiety", "Bias_Cascade"}

-----------------------------------------------------------------------------
(* Dynamics                                                                *)

\* The state vector of a simulation counts thousandths; a derivative counts
\* 0.5e-9 per unit of time, which makes every coefficient of derivatives an
\* integer.  scipy's solve_ivp is a library outside the repository: it is
\* modelled as an explicit fixed-step integrator that takes one step per unit
\* of time, rounds each new value to the thousandth, returns the samples at
\* t_eval and may report failure.

\* thousandths per hundredth
Thousandths == 10
\* derivative units per thousandth per unit of time
DerivUnit == 2000000

\* a / b rounded to the nearest integer, b > 0
RoundDiv(a, b) == (2 * a + b) \div (2 * b)

\* the key names of the dynamics in the order sorted() gives them (strings
\* compare by code point)
LexOrder == <<"Confirmation", "Ego_Oscillation", "Fear", "Joy", "Love", "Lucidity",
              "Meta_Cognition", "Recursive_Overthinking">>

\* k in keys, for a list of keys
InList(keys, k) == \E i \in DOMAIN keys : keys[i] = k

\* sorted(keys)
sorted(keys) == SelectSeq(LexOrder, LAMBDA k : InList(keys, k))

\* idx = {k: i for i, k in enumerate(state_keys)}
idx(state_keys, k) == CHOOSE i \in DOMAIN state_keys : state_keys[i] = k

\* +0.1 * Fear: growth instead of decay
FearRate_growth(fear) == 200000 * fear

\* -0.1 * state_dict["Fear"]
FearRate(fear) == 0 - 200000 * fear

\* "Meta_Cognition" in idx alone
MetaRuleApplies_alone(state_keys) == InList(state_keys, "Meta_Cognition")

\* "Meta_Cognition" in idx and "Confirmation" in idx
MetaRuleApplies(state_keys) ==
    InList(state_keys, "Meta_Cognition") /\ InList(state_keys, "Confirmation")

\* derivatives(t, y, state_keys): dy, or the KeyError of compute_composite
derivatives(y, state_keys) ==
    LET state_dict == [k \in {state_keys[i] : i \in DOMAIN state_keys} |->
                           y[idx(state_keys, k)]]
        has(k) == InList(state_keys, k)
        pos == IF has("Joy") THEN compute_composite("positive", state_dict) ELSE Ok(0)
        bc  == IF MetaRuleApplies(state_keys)
               THEN compute_composite("bias_cascade", state_dict) ELSE Ok(0)
        \* Meta_Cognition * (1 - bias_cascade), in 1e-8
        bias_awareness == state_dict["Meta_Cognition"]
                              * ((Thousandths * ONE * WONE - bc.val) \div 10000)
    IN  IF pos.kind = "raise" THEN pos
        ELSE IF bc.kind = "raise" THEN bc
        ELSE Ok([i \in DOMAIN y |->
                LET k == state_keys[i] IN
                IF k = "Fear" THEN FearRate(state_dict["Fear"])
                ELSE IF k = "Joy" THEN (pos.val \div 10) - 40000 * state_dict["Joy"]
                ELSE IF k = "Ego_Oscillation" /\ has("Lucidity")
                     THEN 200000 * Get(state_dict, "Recursive_Overthinking", 0)
                          - 100000 * state_dict["Lucidity"]
                ELSE IF k = "Meta_Cognition" /\ MetaRuleApplies(state_keys)
                     THEN 2 * bias_awareness
                ELSE IF k = "Confirmation" /\ MetaRuleApplies(state_keys)
                     THEN 0 - bias_awareness
                ELSE 0])

\* the end of the default t_span = (0, 10)
TEnd == 10

\* np.linspace(0, TEnd, n_points), for n_points - 1 a divisor of TEnd
linspace(n_points) ==
    [j \in 1..n_points |-> IF n_points = 1 THEN 0 ELSE ((j - 1) * TEnd) \div (n_points - 1)]

\* one step of the integrator: y + dy over one unit of time
Step(y, state_keys) ==
    CHOOSE z \in {[i \in DOMAIN y |-> y[i] + RoundDiv(dy[i], DerivUnit)] :
                     dy \in {derivatives(y, state_keys).val}} : TRUE

RECURSIVE Integrate(_, _, _)
\* the states y(0), y(1), ..., y(n) of the integrator
Integrate(y, state_keys, n) ==
    IF n = 0 THEN <<y>>
    ELSE CHOOSE p \in {<<y>> \o Integrate(z, state_keys, n - 1) :
                          z \in {Step(y, state_keys)}} : TRUE

\* what the solver may report
SolverOutcomes ==
    {[success |-> TRUE,
      message |-> "The solver successfully reached the end of the integration interval."],
     [success |-> FALSE,
      message |-> "Required step size is less than spacing between numbers."]}

\* solve_ivp(fun=lambda t, y: derivatives(t, y, state_keys), t_span, y0,
\* method, t_eval): an exception of fun propagates; otherwise a solution whose
\* y has one row per variable and one column per time of t_eval
solve_ivp(state_keys, y0, t_eval, method, outcome) ==
    IF derivatives(y0, state_keys).kind = "raise" THEN derivatives(y0, state_keys)
    ELSE [kind |-> "solution", success |-> outcome.success, message |-> outcome.message,
          t |-> t_eval,
          y |-> IF outcome.success
                THEN CHOOSE rows \in
                         {[i \in DOMAIN y0 |-> [j \in DOMAIN t_eval |-> path[t_eval[j] + 1][i]]] :
                              path \in {Integrate(y0, state_keys, TEnd)}} : TRUE
                ELSE <<>>]

RaiseMsg(e, msg) == [kind |-> "raise", exc |-> e, msg |-> msg]

\* simulate_trajectory that solves again with LSODA when the solve fails
simulate_trajectory_fallback(state, keys, n_points, method, outcome) ==
    LET state_keys == sorted(keys)
        y0 == [i \in DOMAIN state_keys |-> state[state_keys[i]] * Thousandths]
        again == solve_ivp(state_keys, y0, linspace(n_points), "LSODA",
                           CHOOSE o \in SolverOutcomes : o.success)
    IN  IF again.kind = "raise" THEN [result |-> again, solve_ivp_calls |-> <<method>>]
        ELSE IF outcome.success
             THEN [result |-> Ok([t |-> again.t, y |-> again.y]),
                   solve_ivp_calls |-> <<method>>]
             ELSE [result |-> Ok([t |-> again.t, y |-> again.y]),
                   solve_ivp_calls |-> <<method, "LSODA">>]

\* simulate_trajectory with state_keys = list(state.keys())
simulate_trajectory_unsorted(state, keys, n_points, method, outcome) ==
    LET state_keys == keys
        y0 == [i \in DOMAIN state_keys |-> state[state_keys[i]] * Thousandths]
        solution == solve_ivp(state_keys, y0, linspace(n_points), method, outcome)
    IN  IF solution.kind = "raise" THEN [result |-> solution, solve_ivp_calls |-> <<method>>]
        ELSE IF ~solution.success
             THEN [result |-> RaiseMsg("RuntimeError",
                                       <<"ODE integration failed: ", solution.message>>),
                   solve_ivp_calls |-> <<method>>]
             ELSE [result |-> Ok([t |-> solution.t, y |-> solution.y]),
                   solve_ivp_calls |-> <<method>>]

\* simulate_trajectory(state, t_span=(0, 10), n_points, method); keys is
\* list(state.keys()); the result and the calls of solve_ivp it made
simulate_trajectory(state, keys, n_points, method, outcome) ==
    LET state_keys == sorted(keys)
        y0 == [i \in DOMAIN state_keys |-> state[state_keys[i]] * Thousandths]
        solution == solve_ivp(state_keys, y0, linspace(n_points), method, outcome)
    IN  IF solution.kind = "raise" THEN [result |-> solution, solve_ivp_calls |-> <<method>>]
        ELSE IF ~solution.success
             THEN [result |-> RaiseMsg("RuntimeError",
                                       <<"ODE integration failed: ", solution.message>>),
                   solve_ivp_calls |-> <<method>>]
             ELSE [result |-> Ok([t |-> solution.t, y |-> solution.y]),
                   solve_ivp_calls |-> <<method>>]

\* the keys and the values the simulated states are built from
SimKeys == {LexOrder[i] : i \in DOMAIN LexOrder}
SimGrid == {0, 80, 100}
SimStates ==
    UNION {[ks -> SimGrid] :
              ks \in {x \in SUBSET SimKeys : x # {} /\ Cardinality(x) <= MaxKeys}}

\* the orders in which the keys of a dict may have been inserted: here the
\* sorted order and its reverse
InsertionOrders(ks) ==
    LET up == sorted(SelectSeq(LexOrder, LAMBDA k : k \in ks)) IN
    {up, [i \in DOMAIN up |-> up[Len(up) + 1 - i]]}

\* the n_points of the calls
NPoints == {3, 11}
\* the method of the calls
Methods == {"RK45", "BDF"}

-----------------------------------------------------------------------------
(* Operations                                                              *)

InitCommon ==
    /\ fs = [weights |-> NoFile, state |-> NoFile]
    /\ debug = TRUE
    /\ mstate = MinimalDefault
    /\ rstate = RefinedDefault
    /\ dstate = EmptyState
    /\ WEIGHTS = _DEFAULT_WEIGHTS
    /\ op = "start"
    /\ arg = None
    /\ ret = None

\* state = MinimalState(S=..., H=..., B=...) / create_state(...)
NewMinimal ==
    /\ op = "start"
    /\ \E S \in RawGrid, H \in RawGrid, B \in RawGrid :
          /\ mstate' = MinimalState(S, H, B)
          /\ arg' = <<S, H, B>>
    /\ op' = "MinimalState"
    /\ ret' = None
    /\ UNCHANGED <<fs, debug, rstate, dstate, WEIGHTS>>

CallClassifyPosition ==
    /\ op # "start"
    /\ op' = "classify_position"
    /\ arg' = mstate
    /\ ret' = Ok(classify_position(mstate))
    /\ UNCHANGED <<fs, debug, mstate, rstate, dstate, WEIGHTS>>

CallInteractions ==
    /\ op # "start"
    /\ op' = "compute_nonlinear_interactions"
    /\ arg' = mstate
    /\ ret' = Ok(compute_nonlinear_interactions(mstate))
    /\ UNCHANGED <<fs, debug, mstate, rstate, dstate, WEIGHTS>>

\* save_state(state, filepath)
CallSaveState ==
    /\ op # "start"
    /\ op' = "save_state"
    /\ arg' = mstate
    /\ fs' = [fs EXCEPT !.state = save_state(mstate)]
    /\ ret' = None
    /\ UNCHANGED <<debug, mstate, rstate, dstate, WEIGHTS>>

\* loaded_state = load_state(filepath): a new object, the state is kept
CallLoadState ==
    /\ op # "start"
    /\ op' = "load_state"
    /\ arg' = fs.state
    /\ ret' = load_state
    /\ UNCHANGED <<fs, debug, mstate, rstate, dstate, WEIGHTS>>

NextMinimal ==
    \/ NewMinimal
    \/ CallClassifyPosition
    \/ CallInteractions
    \/ CallSaveState
    \/ CallLoadState

SpecMinimal == InitCommon /\ [][NextMinimal]_vars

\* state = RefinedState(...) / create_refined_state(...)
NewRefined ==
    /\ op = "start"
    /\ \E S \in RRawGrid, Hs \in RRawGrid, Hc \in RRawGrid, B \in RRawGrid :
          /\ rstate' = RefinedState(S, Hs, Hc, B)
          /\ arg' = <<S, Hs, Hc, B>>
    /\ op' = "RefinedState"
    /\ ret' = None
    /\ UNCHANGED <<fs, debug, mstate, dstate, WEIGHTS>>

\* state.<field> = v  (the dataclass is not frozen; assignment does not clamp)
SetRefinedField ==
    /\ op # "start"
    /\ \E f \in RefinedFields, v \in RGrid :
          /\ rstate[f] # v
          /\ rstate' = [rstate EXCEPT ![f] = v]
          /\ arg' = <<f, v>>
    /\ op' = "setattr"
    /\ ret' = None
    /\ UNCHANGED <<fs, debug, mstate, dstate, WEIGHTS>>

CallBiasAmplification ==
    /\ op # "start"
    /\ op' = "bias_amplification"
    /\ arg' = [state |-> rstate, after |-> op]
    /\ ret' = Ok(bias_amplification(rstate))
    /\ UNCHANGED <<fs, debug, mstate, rstate, dstate, WEIGHTS>>

CallEnergyMismatch ==
    /\ op # "start"
    /\ op' = "energy_mismatch"
    /\ arg' = rstate
    /\ ret' = Ok(energy_mismatch(rstate))
    /\ UNCHANGED <<fs, debug, mstate, rstate, dstate, WEIGHTS>>

CallClassifyRefined ==
    /\ op # "start"
    /\ op' = "classify_refined_position"
    /\ arg' = rstate
    /\ ret' = Ok(classify_refined_position(rstate))
    /\ UNCHANGED <<fs, debug, mstate, rstate, dstate, WEIGHTS>>

NextRefined ==
    \/ NewRefined
    \/ SetRefinedField
    \/ CallBiasAmplification
    \/ CallEnergyMismatch
    \/ CallClassifyRefined

SpecRefined == InitCommon /\ [][NextRefined]_vars

\* state: State = {...}
NewState ==
    /\ op = "start"
    /\ \E d \in DStates :
          /\ dstate' = d
          /\ arg' = d
    /\ op' = "State"
    /\ ret' = None
    /\ UNCHANGED <<fs, debug, mstate, rstate, WEIGHTS>>

CallComputeComposite ==
    /\ op # "start"
    /\ \E name \in CompositeNames :
          /\ arg' = <<name, dstate>>
          /\ ret' = compute_composite(name, dstate)
    /\ op' = "compute_composite"
    /\ UNCHANGED <<fs, debug, mstate, rstate, dstate, WEIGHTS>>

CallClassifyTriangle ==
    /\ op # "start"
    /\ op' = "classify_triangle_position"
    /\ arg' = dstate
    /\ ret' = classify_triangle_position(dstate)
    /\ UNCHANGED <<fs, debug, mstate, rstate, dstate, WEIGHTS>>

NextDetailed == NewState \/ CallComputeComposite \/ CallClassifyTriangle

SpecDetailed == InitCommon /\ [][NextDetailed]_vars

NewSimState ==
    /\ op = "start"
    /\ \E d \in SimStates :
          /\ dstate' = d
          /\ arg' = d
    /\ op' = "State"
    /\ ret' = None
    /\ UNCHANGED <<fs, debug, mstate, rstate, WEIGHTS>>

\* derivatives(t, y, state_keys) on the vector of the state
CallDerivatives ==
    /\ op # "start"
    /\ \E keys \in InsertionOrders(DOMAIN dstate) :
          /\ arg' = [y |-> [i \in DOMAIN keys |-> dstate[keys[i]] * Thousandths],
                     state_keys |-> keys]
          /\ ret' = derivatives([i \in DOMAIN keys |-> dstate[keys[i]] * Thousandths], keys)
    /\ op' = "derivatives"
    /\ UNCHANGED <<fs, debug, mstate, rstate, dstate, WEIGHTS>>

\* simulate_trajectory(state, n_points=..., method=...) on a state just built
CallSimulateTrajectory ==
    /\ op = "State"
    /\ \E keys \in InsertionOrders(DOMAIN dstate), n_points \in NPoints,
          method \in Methods, outcome \in SolverOutcomes :
          \E r \in {simulate_trajectory(dstate, keys, n_points, method, outcome)} :
          /\ arg' = [state |-> dstate, keys |-> keys, n_points |-> n_points,
                     method |-> method, solver |-> outcome,
                     solve_ivp_calls |-> r.solve_ivp_calls]
          /\ ret' = r.result
    /\ op' = "simulate_trajectory"
    /\ UNCHANGED <<fs, debug, mstate, rstate, dstate, WEIGHTS>>

NextDynamics ==
    \/ NewSimState
    \/ CallDerivatives
    \/ CallSimulateTrajectory

SpecDynamics == InitCommon /\ [][NextDynamics]_vars

\* create_state(S, H, B): MinimalState(S=S, H=H, B=B), returned
CallCreateState ==
    /\ op = "start"
    /\ \E S \in RawGrid, H \in RawGrid, B \in RawGrid :
          /\ mstate' = MinimalState(S, H, B)
          /\ arg' = <<S, H, B>>
          /\ ret' = Ok(MinimalState(S, H, B))
    /\ op' = "create_state"
    /\ UNCHANGED <<fs, debug, rstate, dstate, WEIGHTS>>

\* create_refined_state(S, H_somatic, H_cognitive, B)
CallCreateRefinedState ==
    /\ op = "start"
    /\ \E S \in RRawGrid, Hs \in RRawGrid, Hc \in RRawGrid, B \in RRawGrid :
          /\ rstate' = RefinedState(S, Hs, Hc, B)
          /\ arg' = <<S, Hs, Hc, B>>
          /\ ret' = Ok(RefinedState(S, Hs, Hc, B))
    /\ op' = "create_refined_state"
    /\ UNCHANGED <<fs, debug, mstate, dstate, WEIGHTS>>

\* a state document written by another program: any three numbers
ExternalWrite ==
    /\ op = "start"
    /\ \E S \in RawGrid, H \in RawGrid, B \in RawGrid :
          /\ fs' = [fs EXCEPT !.state = StateFile(S, H, B)]
          /\ arg' = <<S, H, B>>
    /\ op' = "write"
    /\ ret' = None
    /\ UNCHANGED <<debug, mstate, rstate, dstate, WEIGHTS>>

NextConstruct ==
    \/ NewMinimal
    \/ CallCreateState
    \/ NewRefined
    \/ CallCreateRefinedState
    \/ ExternalWrite
    \/ CallLoadState

SpecConstruct == InitCommon /\ [][NextConstruct]_vars

\* the thresholds detect_flags uses when it is given None
DefaultThresholds ==
    [bias_cluster |-> 60, delusionality |-> 40, ego_osc |-> 60,
     overthink |-> 70, dogma |-> 70, narrative_collapse |-> 70]

\* narrative_risk = 1.0 - (0.4*Coherence + 0.3*Continuity + 0.3*Arc), in 1e-3,
\* with Arc absent read as 0.7 instead of 0.5
narrative_risk_arc_default_high(state) ==
    1000 - (4 * Get(state, "Coherence", 70) + 3 * Get(state, "Continuity", 70)
            + 3 * Get(state, "Arc", 70))

\* narrative_risk = 1.0 - (0.4*Coherence + 0.3*Continuity + 0.3*Arc), in 1e-3
narrative_risk(state) ==
    1000 - (4 * Get(state, "Coherence", 70) + 3 * Get(state, "Continuity", 70)
            + 3 * Get(state, "Arc", 50))

\* the second conjunct of Moral_Rigidity compared with the dogma threshold
Protagonist_high_configured(state, th) == Get(state, "Protagonist", 60) > th["dogma"]

\* state.get("Protagonist", 0.6) > 0.7
Protagonist_high(state, th) == Get(state, "Protagonist", 60) > 70

\* The body of detect_flags; ncKey is the threshold Narrative_Collapse reads
\* ('narrative_collapse' in the source).  The dict display evaluates its three
\* values in order; a threshold that is looked up and missing raises KeyError,
\* and thresholds['delusionality'] is looked up only when the first conjunct
\* of Bias_Cascade is true.
DetectWith(state, thresholds, ncKey) ==
    LET th == IF thresholds = None THEN DefaultThresholds ELSE thresholds
        bias_cluster == compute_composite("bias_cascade", state)
    IN  IF bias_cluster.kind = "raise" THEN bias_cluster
        ELSE IF "bias_cluster" \notin DOMAIN th THEN Raise("KeyError")
        ELSE IF /\ bias_cluster.val > th["bias_cluster"] * WONE
                /\ "delusionality" \notin DOMAIN th THEN Raise("KeyError")
        ELSE IF ncKey \notin DOMAIN th THEN Raise("KeyError")
        ELSE IF "dogma" \notin DOMAIN th THEN Raise("KeyError")
        ELSE Ok([Bias_Cascade |->
                     /\ bias_cluster.val > th["bias_cluster"] * WONE
                     /\ Get(state, "Delusionality", 0) > th["delusionality"],
                 Narrative_Collapse |-> narrative_risk(state) > th[ncKey] * 10,
                 Moral_Rigidity |->
                     /\ Get(state, "Dogma_Fixation", 0) > th["dogma"]
                     /\ Protagonist_high(state, th)])

\* detect_flags with Narrative_Collapse compared with the overthink threshold
detect_flags_overthink(state, thresholds) == DetectWith(state, thresholds, "overthink")

detect_flags(state, thresholds) == DetectWith(state, thresholds, "narrative_collapse")

\* sub in str, both token sequences
Contains(str, sub) ==
    \E i \in 1..(Len(str) + 1 - Len(sub)) : SubSeq(str, i, i + Len(sub) - 1) = sub

\* the recommendation strings; the two non-ASCII glyphs of the source are
\* written "~=" (approximately equal) and "(!)" (warning sign)
Position1Block ==
    <<"1. Scientific Method Training",
      "   - Focus on base rates and cause-absent evidence",
      "   - Evidence: d ~= 1.0, lasts 6+ months",
      "   - Target: Build awareness of biases",
      "2. Cognitive Debiasing Training",
      "   - Mnemonics and Bayesian tools",
      "   - Awareness of cognitive pitfalls",
      "   - Evidence: Significant error reduction (p < .001)">>

Position2Block ==
    <<"1. Metacognitive Monitoring Practice",
      "   - Ongoing self-correction exercises",
      "   - Real-life applicability training",
      "   - Evidence: Sustained improvement with practice",
      "2. Reduce Recursive Overthinking",
      "   - Structured problem-solving frameworks",
      "   - Set limits on rumination cycles">>

Position3Block ==
    <<"1. Maintenance Practice",
      "   - Regular bias calibration exercises",
      "   - Position 3 is unstable - practice prevents regression",
      "2. Monitor Ego Oscillation",
      "   - Maintain stable self-coherence",
      "   - Regular reality-testing check-ins">>

CascadeWarning ==
    "(!)  High bias cascade detected - Consider structured debiasing program"

\* bias_cascade >= 0.6
HighBiasCascade_inclusive(bias_cascade) == bias_cascade >= 60 * WONE

\* bias_cascade > 0.6
HighBiasCascade(bias_cascade) == bias_cascade > 60 * WONE

\* the three tests of recommend_debiasing
MatchesPosition1(position) ==
    \/ Contains(position, <<"Position", "_", "1">>)
    \/ Contains(position, <<"Epistemic", " ", "Arrogance">>)
MatchesPosition2(position) ==
    \/ Contains(position, <<"Position", "_", "2">>)
    \/ Contains(position, <<"Meta", " ", "Awareness">>)
MatchesPosition3(position) ==
    \/ Contains(position, <<"Position", "_", "3">>)
    \/ Contains(position, <<"Integrated", " ", "Competence">>)

\* the three tests as an if / elif chain: only the first matched block
recommend_debiasing_first_match(position, state) ==
    LET bias_cascade == compute_composite("bias_cascade", state)
        block == IF MatchesPosition1(position) THEN Position1Block
                 ELSE IF MatchesPosition2(position) THEN Position2Block
                 ELSE IF MatchesPosition3(position) THEN Position3Block
                 ELSE <<>>
    IN  IF bias_cascade.kind = "raise" THEN bias_cascade
        ELSE Ok(block \o (IF HighBiasCascade(bias_cascade.val)
                          THEN <<CascadeWarning>> ELSE <<>>))

recommend_debiasing(position, state) ==
    LET r1 == IF MatchesPosition1(position) THEN Position1Block ELSE <<>>
        r2 == IF MatchesPosition2(position) THEN Position2Block ELSE <<>>
        r3 == IF MatchesPosition3(position) THEN Position3Block ELSE <<>>
        bias_cascade == compute_composite("bias_cascade", state)
    IN  IF bias_cascade.kind = "raise" THEN bias_cascade
        ELSE Ok(r1 \o r2 \o r3 \o (IF HighBiasCascade(bias_cascade.val)
                                   THEN <<CascadeWarning>> ELSE <<>>))

\* the weight files a startup may find: two composites, the sums of "stress"
\* at, just inside and just outside each tolerance, and negative weights
WeightFiles ==
    {[stress |-> [Fear |-> a, Anger |-> b], positive |-> [Joy |-> c]] :
        a \in {600000, 1200000},
        b \in {400000, 399500, 398999, 401000, 401001, 401002, -200000},
        c \in {1000000, 998999, 1001001}}

\* the states the composites are computed on after a startup
SKeys == {"Fear", "Anger", "Joy"}
SGrid == {0, 50, 100}
SStates == UNION {[ks -> SGrid] : ks \in {x \in SUBSET SKeys : Cardinality(x) <= MaxKeys}}

\* before the import of the module: the file may exist, nothing is bound yet
InitStartup ==
    /\ fs \in {[weights |-> w, state |-> NoFile] : w \in {NoFile} \cup WeightFiles}
    /\ debug \in BOOLEAN
    /\ mstate = MinimalDefault
    /\ rstate = RefinedDefault
    /\ dstate = EmptyState
    /\ WEIGHTS = None
    /\ op = "boot"
    /\ arg = None
    /\ ret = None

\* import PHARMAKON_V10_A: WEIGHTS = _load_weights(), then the sanity check;
\* a failed assert aborts the import and nothing of the module can be called
ImportModule ==
    /\ op = "boot"
    /\ WEIGHTS' = _load_weights
    /\ arg' = fs.weights
    /\ ret' = SanityCheck(_load_weights)
    /\ op' = IF SanityCheck(_load_weights) = None THEN "start" ELSE "import_failed"
    /\ UNCHANGED <<fs, debug, mstate, rstate, dstate>>

NewStartupState ==
    /\ op = "start"
    /\ \E d \in SStates :
          /\ dstate' = d
          /\ arg' = d
    /\ op' = "State"
    /\ ret' = None
    /\ UNCHANGED <<fs, debug, mstate, rstate, WEIGHTS>>

NextStartup ==
    \/ ImportModule
    \/ NewStartupState
    \/ (op \notin {"boot", "import_failed"} /\ CallComputeComposite)

SpecStartup == InitStartup /\ [][NextStartup]_vars

-----------------------------------------------------------------------------
(* Properties of the minimal model (SpecMinimal)                           *)

\* index of the first rule of a rule list that holds (the last rule is TRUE)
FirstMatch(rules) == CHOOSE i \in 1..Len(rules) :
                        /\ rules[i][1]
                        /\ \A j \in 1..(i - 1) : ~rules[j][1]

MinimalRules(S, H, B) ==
    << <<S < 20, "Ego_Dissolution">>,
       <<H < 20, "Energy_Collapse">>,
       <<B > 80, "Delusional_Defense">>,
       <<S > 70 /\ H > 60 /\ B > 60, "Position_1_Epistemic_Arrogance">>,
       <<S > 70 /\ H > 60 /\ B < 40, "Position_3_Integrated_Competence">>,
       <<S > 50 /\ 40 < B /\ B < 70, "Position_2_Meta_Awareness_Trap">>,
       <<TRUE, "Transitional_State">> >>

\* C1: for every MinimalState with S, H, B in [0,1], classify_position returns
\* the label of the first rule that holds, in the order Ego_Dissolution,
\* Energy_Collapse, Delusional_Defense, Position_1, Position_3, Position_2,
\* Transitional_State; an earlier rule wins when several hold.
C1_FirstMatch ==
    op = "classify_position" =>
        LET rules == MinimalRules(mstate.S, mstate.H, mstate.B) IN
        /\ mstate.S \in 0..ONE /\ mstate.H \in 0..ONE /\ mstate.B \in 0..ONE
        /\ ret = Ok(rules[FirstMatch(rules)][2])

\* S < 0.2 and H < 0.2 and B > 0.8 all hold and the first rule wins
C1_Witness ==
    /\ op = "classify_position"
    /\ mstate.S < 20 /\ mstate.H < 20 /\ mstate.B > 80
    /\ ret = Ok("Ego_Dissolution")

RedditBride == [S |-> 85, H |-> 75, B |-> 85]

\* C2: classify_position of S=0.85, H=0.75, B=0.85 returns
\* Position_1_Epistemic_Arrogance.
C2_RedditBrideIsPosition1 ==
    (op = "classify_position" /\ mstate = RedditBride)
        => ret = Ok("Position_1_Epistemic_Arrogance")

-----------------------------------------------------------------------------
(* Properties of the refined model (SpecRefined)                           *)

RefinedRules(S, Hs, Hc, aB, mismatch) ==
    << <<S < 20, "Ego_Dissolution">>,
       <<Hc < 20, "Cognitive_Collapse">>,
       <<mismatch > 40, "Stress_Amplification">>,
       <<S > 70 /\ (Hs > 60 \/ Hc > 60) /\ RLt(Hundredths(60), aB),
         "Position_1_Epistemic_Arrogance">>,
       <<S > 70 /\ Abs(Hs - Hc) < 20 /\ RLt(aB, Hundredths(40)),
         "Position_3_Integrated_Competence">>,
       <<S > 50 /\ RLt(Hundredths(40), aB) /\ RLt(aB, Hundredths(70)),
         "Position_2_Meta_Awareness_Trap">>,
       <<TRUE, "Transitional_State">> >>

InUnit(st) == \A f \in DOMAIN st : st[f] \in 0..ONE

\* C3: for every RefinedState with fields in [0,1], classify_refined_position
\* returns the label of the first rule that holds, in the order Ego_Dissolution,
\* Cognitive_Collapse, Stress_Amplification, Position_1, Position_3, Position_2,
\* Transitional_State, the position rules reading the amplified bias
\* bias_amplification() and never the raw B.
C3_RefinedFirstMatch ==
    (op = "classify_refined_position" /\ InUnit(rstate)) =>
        LET rules == RefinedRules(rstate.S, rstate.H_somatic, rstate.H_cognitive,
                                  bias_amplification(rstate), energy_mismatch(rstate))
        IN ret = Ok(rules[FirstMatch(rules)][2])

\* the raw B is not below 0.4 and the amplified bias is: Position_3 is returned
\* although its rule would fail on the raw B
C3_Witness ==
    /\ op = "classify_refined_position"
    /\ rstate.S > 70 /\ rstate.B >= 40
    /\ RLt(bias_amplification(rstate), Hundredths(40))
    /\ ret = Ok("Position_3_Integrated_Competence")

StressExample == [S |-> 80, H_somatic |-> 90, H_cognitive |-> 30, B |-> 40]

\* C4: classify_refined_position of S=0.8, H_somatic=0.9, H_cognitive=0.3,
\* B=0.4 returns Stress_Amplification: H_cognitive < 0.2 is false and
\* energy_mismatch = 0.6 > 0.4.
C4_StressExample ==
    (op = "classify_refined_position" /\ rstate = StressExample) =>
        /\ ret = Ok("Stress_Amplification")
        /\ ~(rstate.H_cognitive < 20)
        /\ energy_mismatch(rstate) = 60
        /\ energy_mismatch(rstate) > 40

C4_Witness ==
    /\ op = "classify_refined_position"
    /\ rstate = StressExample
    /\ ret = Ok("Stress_Amplification")

\* C5: for S=0.8, H_somatic=0.9, H_cognitive=0.3, B=0.4, bias_amplification()
\* returns 0.24.
C5_StressAmplifiedBias ==
    (op = "bias_amplification" /\ rstate = StressExample)
        => (ret.kind = "ok" /\ REq(ret.val, Hundredths(24)))

\* C6: for every RefinedState with fields in [0,1], each call of
\* bias_amplification returns min(B * (H_somatic / max(H_cognitive, 0.1)) *
\* (1 - S), 1.0) of the fields as they are at the call if H_cognitive < 0.3 and
\* B otherwise, each call of energy_mismatch returns max(0, H_somatic -
\* H_cognitive), and both results lie in [0,1].
C6_HelperValues ==
    /\ (op = "bias_amplification" /\ InUnit(rstate)) =>
          /\ ret.kind = "ok"
          /\ RLe(Rat(0, 1), ret.val) /\ RLe(ret.val, Rat(1, 1))
          /\ IF rstate.H_cognitive < 30
             THEN LET den == (IF rstate.H_cognitive >= 10
                              THEN rstate.H_cognitive ELSE 10) * ONE * ONE
                      num == rstate.B * rstate.H_somatic * (ONE - rstate.S)
                  IN IF num <= den THEN ret.val = Rat(num, den)
                                   ELSE ret.val = Rat(1, 1)
             ELSE ret.val = Rat(rstate.B, ONE)
    /\ (op = "energy_mismatch" /\ InUnit(rstate)) =>
          /\ ret.kind = "ok"
          /\ ret.val \in 0..ONE
          /\ IF rstate.H_somatic >= rstate.H_cognitive
             THEN ret.val = rstate.H_somatic - rstate.H_cognitive
             ELSE ret.val = 0

\* a call made after a field assignment, on a state where the uncapped product
\* exceeds 1.0 and the result is the cap
C6_Witness ==
    /\ op = "bias_amplification"
    /\ arg.after = "setattr"
    /\ rstate.H_cognitive < 30
    /\ rstate.B * rstate.H_somatic * (ONE - rstate.S)
          > Max(rstate.H_cognitive, 10) * ONE * ONE
    /\ REq(ret.val, Rat(1, 1))

-----------------------------------------------------------------------------
(* Properties of the detailed model (SpecDetailed)                         *)

\* the value stored under a key of an insertion-ordered dict
ValueOf(scores, key) == scores[CHOOSE i \in DOMAIN scores : scores[i][1] = key][2]

PositionKeys == <<Position_1_Epistemic_Arrogance, Position_2_Meta_Awareness_Trap,
                  Position_3_Integrated_Competence>>

\* the position number a label names: the token after "Position" and its separator
PositionNumber(label) == CHOOSE n \in 1..3 : label[3] = <<"1", "2", "3">>[n]

\* C7: classify_triangle_position selects a position whose score is the maximum
\* of the three, and among positions tied at the maximum the lowest-numbered.
C7_ArgmaxLowestWins ==
    (op = "classify_triangle_position" /\ ret.kind = "ok") =>
        LET label == ret.val[1]
            P(i) == ValueOf(ret.val[2], PositionKeys[i])
        IN /\ label[1] = "Position"
           /\ label[3] \in {"1", "2", "3"}
           /\ \A m \in 1..3 : P(m) <= P(PositionNumber(label))
           /\ \A m \in 1..3 : m < PositionNumber(label) => P(m) < P(PositionNumber(label))

\* all three scores are equal and Position 1 is returned
C7_Witness ==
    /\ op = "classify_triangle_position"
    /\ ret.kind = "ok"
    /\ ret.val[2][1][2] = ret.val[2][2][2]
    /\ ret.val[2][2][2] = ret.val[2][3][2]
    /\ PositionNumber(ret.val[1]) = 1

\* C8: for every detailed state, keys absent or not, classify_triangle_position
\* returns the three scores P1 = 0.4*avg(dk, oc) + 0.3*(1-mc) + 0.3*(1-lu),
\* P2 = 0.3*mc + 0.3*lu + 0.2*ro + 0.2*bias_cascade, P3 = 0.3*mc + 0.3*lu +
\* 0.2*(1-ro) + 0.2*(1-eo), with the defaults dk=0.3, oc=0.3, mc=0.5, lu=1.0,
\* ro=0.0, eo=0.0 for absent keys, and bias_cascade = 0.35*Confirmation +
\* 0.30*Dunning_Kruger + 0.25*Overconfidence + 0.10*Hindsight with absent keys
\* contributing 0.
C8_ScoreFormulas ==
    op = "classify_triangle_position" =>
        LET V(k, default) == IF k \in DOMAIN dstate THEN dstate[k] ELSE default
            dk == V("Dunning_Kruger", 30)
            oc == V("Overconfidence", 30)
            mc == V("Meta_Cognition", 50)
            lu == V("Lucidity", 100)
            ro == V("Recursive_Overthinking", 0)
            eo == V("Ego_Oscillation", 0)
            \* in 1e-8: (weight in hundredths) * (value in hundredths) * 10000
            bc == (35 * V("Confirmation", 0) + 30 * V("Dunning_Kruger", 0)
                    + 25 * V("Overconfidence", 0) + 10 * V("Hindsight", 0)) * 10000
            \* in 1e-9: (coefficient in tenths) * (value in hundredths) * 1000000
            P1 == (2 * (dk + oc) + 3 * (100 - mc) + 3 * (100 - lu)) * 1000000
            P2 == (3 * mc + 3 * lu + 2 * ro) * 1000000 + 2 * bc
            P3 == (3 * mc + 3 * lu + 2 * (100 - ro) + 2 * (100 - eo)) * 1000000
        IN /\ ret.kind = "ok"
           /\ Len(ret.val[2]) = 3
           /\ ValueOf(ret.val[2], Position_1_Epistemic_Arrogance) = P1
           /\ ValueOf(ret.val[2], Position_2_Meta_Awareness_Trap) = P2
           /\ ValueOf(ret.val[2], Position_3_Integrated_Competence) = P3

\* Lucidity and Dunning_Kruger are absent (their classifier defaults 1.0 and 0.3
\* apply, and Dunning_Kruger adds 0 to the composite) while the composite is not 0
C8_Witness ==
    /\ op = "classify_triangle_position"
    /\ "Lucidity" \notin DOMAIN dstate
    /\ "Dunning_Kruger" \notin DOMAIN dstate
    /\ "Confirmation" \in DOMAIN dstate /\ dstate["Confirmation"] > 0
    /\ ret.kind = "ok"

\* C9: for every known composite name and every state, compute_composite
\* returns, without raising, the sum of value * weight over the vector's keys
\* that the state holds: an absent key adds 0, a key outside the vector adds
\* nothing, and the result is 0 when the state holds no key of the vector.
C9_CompositeSum ==
    (op = "compute_composite" /\ arg[1] \in DOMAIN WEIGHTS) =>
        LET vec == WEIGHTS[arg[1]]
            present == DOMAIN vec \cap DOMAIN dstate
        IN /\ ret = Ok(Dot(present, vec, dstate))
           /\ present = {} => ret = Ok(0)

\* the state holds a key of the vector, lacks another, and holds a key outside it
C9_Witness ==
    /\ op = "compute_composite"
    /\ arg[1] = "bias_cascade"
    /\ "Confirmation" \in DOMAIN dstate
    /\ "Hindsight" \notin DOMAIN dstate
    /\ "Lucidity" \in DOMAIN dstate
    /\ ret.kind = "ok" /\ ret.val > 0

\* C10 as stated: compute_composite called with a name that is not in the weight
\* table fails with UnknownCompositeError and leaves the weight table and the
\* state unchanged.
C10_UnknownCompositeError ==
    [][(op' = "compute_composite" /\ arg'[1] \notin DOMAIN WEIGHTS) =>
          /\ ret' = Raise("UnknownCompositeError")
          /\ WEIGHTS' = WEIGHTS
          /\ dstate' = dstate]_vars

\* C10 amended: compute_composite called with a name that is not in the weight
\* table fails with the KeyError of the table lookup, returns no score, and
\* leaves the weight table and the state unchanged.
C10_KeyError ==
    [][(op' = "compute_composite" /\ arg'[1] \notin DOMAIN WEIGHTS) =>
          /\ ret' = Raise("KeyError")
          /\ WEIGHTS' = WEIGHTS
          /\ dstate' = dstate]_vars

C10_Witness ==
    /\ op = "compute_composite"
    /\ arg[1] = "anxiety"
    /\ dstate # EmptyState
    /\ ret = Raise("KeyError")

\* the states detect_flags is called on: the keys it reads, values at and
\* around the thresholds
FKeys == {"Coherence", "Continuity", "Arc", "Delusionality", "Dogma_Fixation",
          "Protagonist", "Confirmation", "Dunning_Kruger", "Overconfidence"}
FGrid == {0, 70, 100}
FStates == UNION {[ks -> FGrid] : ks \in {x \in SUBSET FKeys : Cardinality(x) <= MaxKeys}}

\* a second set of thresholds
AltThresholds ==
    [bias_cluster |-> 30, delusionality |-> 70, ego_osc |-> 10,
     overthink |-> 10, dogma |-> 50, narrative_collapse |-> 40]

Consulted == {"bias_cluster", "delusionality", "dogma", "narrative_collapse"}

\* the thresholds arguments: None, complete dicts, dicts without ego_osc and
\* overthink, and dicts without one of the thresholds the function reads
ThresholdConfigs ==
    {None, [DefaultThresholds EXCEPT !["ego_osc"] = 10, !["overthink"] = 10]}
    \cup {[k \in ks |-> base[k]] :
             base \in {DefaultThresholds, AltThresholds},
             ks \in {DOMAIN DefaultThresholds, Consulted,
                     DOMAIN DefaultThresholds \ {"dogma"},
                     DOMAIN DefaultThresholds \ {"delusionality"}}}

\* a weight file that passes the sanity check and has no "bias_cascade" vector
NoBiasCascadeFile == [stress |-> [Fear |-> W(60), Anger |-> W(40)]]

\* the module imported with the defaults or with a loaded table
InitFlags ==
    /\ fs \in {[weights |-> w, state |-> NoFile] : w \in {NoFile, NoBiasCascadeFile}}
    /\ debug = TRUE
    /\ mstate = MinimalDefault
    /\ rstate = RefinedDefault
    /\ dstate = EmptyState
    /\ WEIGHTS = _load_weights
    /\ op = "start"
    /\ arg = None
    /\ ret = None

NewFlagState ==
    /\ op = "start"
    /\ \E d \in FStates :
          /\ dstate' = d
          /\ arg' = d
    /\ op' = "State"
    /\ ret' = None
    /\ UNCHANGED <<fs, debug, mstate, rstate, WEIGHTS>>

CallDetectFlags ==
    /\ op # "start"
    /\ \E t \in ThresholdConfigs :
          /\ arg' = [state |-> dstate, thresholds |-> t]
          /\ ret' = detect_flags(dstate, t)
    /\ op' = "detect_flags"
    /\ UNCHANGED <<fs, debug, mstate, rstate, dstate, WEIGHTS>>

NextFlags ==
    \/ NewFlagState
    \/ CallDetectFlags

SpecFlags == InitFlags /\ [][NextFlags]_vars

\* the labels recommend_debiasing is called with: the three labels
\* classify_triangle_position returns, the three keys of its score dict, and
\* labels written by hand
PositionLabels ==
    {Replace(Position_1_Epistemic_Arrogance, "_", " "),
     Replace(Position_2_Meta_Awareness_Trap, "_", " "),
     Replace(Position_3_Integrated_Competence, "_", " "),
     Position_1_Epistemic_Arrogance,
     Position_2_Meta_Awareness_Trap,
     Position_3_Integrated_Competence,
     <<"Position", "_", "1", "2">>,
     <<"Position", "_", "3", "/", "Position", "_", "1">>,
     <<"Meta", " ", "Awareness", " ", "and", " ", "Epistemic", " ", "Arrogance">>,
     <<"Epistemic", "_", "Arrogance">>,
     <<"position", "_", "1">>,
     <<"Position", " ", "4">>,
     <<"Custom">>,
     <<>>}

\* the states recommend_debiasing is called on
BKeys == {"Confirmation", "Dunning_Kruger", "Overconfidence", "Hindsight", "Fear"}
BGrid == {0, 50, 100}
BStates == UNION {[ks -> BGrid] : ks \in {x \in SUBSET BKeys : Cardinality(x) <= MaxKeys}}

NewBiasState ==
    /\ op = "start"
    /\ \E d \in BStates :
          /\ dstate' = d
          /\ arg' = d
    /\ op' = "State"
    /\ ret' = None
    /\ UNCHANGED <<fs, debug, mstate, rstate, WEIGHTS>>

CallRecommendDebiasing ==
    /\ op # "start"
    /\ \E position \in PositionLabels :
          /\ arg' = [position |-> position, state |-> dstate]
          /\ ret' = recommend_debiasing(position, dstate)
    /\ op' = "recommend_debiasing"
    /\ UNCHANGED <<fs, debug, mstate, rstate, dstate, WEIGHTS>>

NextRecommend ==
    \/ NewBiasState
    \/ CallRecommendDebiasing

SpecRecommend == InitFlags /\ [][NextRecommend]_vars

-----------------------------------------------------------------------------
(* Properties of the startup (SpecStartup)                                 *)

Imported == op \notin {"boot", "import_failed"}

\* the sum of the weights of a vector of the table, in 1e-6
VectorSum(comp) == SumValues(DOMAIN WEIGHTS[comp], WEIGHTS[comp])

\* C11 as stated: after startup every vector of the table sums to 1.0 within
\* an absolute tolerance of 1e-3, and no composite is computed with a table
\* that holds a vector further than 1e-3 from 1.0.
C11_AbsoluteTolerance ==
    Imported => \A comp \in DOMAIN WEIGHTS :
                   /\ VectorSum(comp) - WONE <= 1000
                   /\ WONE - VectorSum(comp) <= 1000

\* C11 amended: when assertions are enabled, after startup every vector of the
\* table sums to 1.0 within the relative tolerance 1e-3, that is 0.999 <= sum
\* and 0.999 * sum <= 1.0; a loaded table with a vector outside makes startup
\* fail with AssertionError, so that no composite is computed with it; and a
\* table whose vectors are all inside never makes startup fail.
C11_RelativeTolerance ==
    LET inside(x) == 999 * WONE <= 1000 * x /\ 999 * x <= 1000 * WONE IN
    /\ (debug /\ Imported) => \A comp \in DOMAIN WEIGHTS : inside(VectorSum(comp))
    /\ (debug /\ op = "import_failed") =>
          /\ ret = Raise("AssertionError")
          /\ fs.weights # NoFile
          /\ \E comp \in DOMAIN WEIGHTS : ~inside(VectorSum(comp))
    /\ (debug /\ op = "compute_composite") =>
          \A comp \in DOMAIN WEIGHTS : inside(VectorSum(comp))

\* a composite computed after a loaded table with a sum of 1.001001 was accepted
C11_Witness ==
    /\ debug
    /\ op = "compute_composite"
    /\ fs.weights # NoFile
    /\ VectorSum("stress") = 1001001

\* a startup that failed on a sum of 1.001002
C11_WitnessRefused ==
    /\ debug
    /\ op = "import_failed"
    /\ VectorSum("stress") = 1001002

\* C12: for every weight table that passes the startup check and every state
\* whose values all lie in [0,1], compute_composite returns a score in [0,1].
C12_CompositeInUnit ==
    (op = "compute_composite" /\ debug /\ InUnit(dstate) /\ ret.kind = "ok") =>
        (0 <= ret.val /\ ret.val <= ONE * WONE)

-----------------------------------------------------------------------------
(* Properties of detect_flags (SpecFlags)                                  *)

\* the thresholds a call of detect_flags works with
CallThresholds == IF arg.thresholds = None THEN DefaultThresholds ELSE arg.thresholds

\* a state value in hundredths, with the default of an absent key
FV(k, default) == IF k \in DOMAIN dstate THEN dstate[k] ELSE default

\* C13: detect_flags sets Narrative_Collapse true if and only if narrative_risk
\* = 1 - (0.4*Coherence + 0.3*Continuity + 0.3*Arc), absent keys read as 0.7,
\* 0.7 and 0.5, is strictly greater than the narrative_collapse threshold; at
\* equality the flag is false.
C13_NarrativeCollapse ==
    (op = "detect_flags" /\ ret.kind = "ok") =>
        LET risk == 1000 - 4 * FV("Coherence", 70) - 3 * FV("Continuity", 70)
                         - 3 * FV("Arc", 50)
            thr  == 10 * CallThresholds["narrative_collapse"]
        IN  /\ ret.val.Narrative_Collapse <=> (risk > thr)
            /\ (risk = thr) => ~ret.val.Narrative_Collapse

\* narrative_risk equal to the default threshold 0.7: Coherence 0 and
\* 0.3*Continuity + 0.3*Arc = 0.3
C13_Witness ==
    /\ op = "detect_flags"
    /\ ret.kind = "ok"
    /\ arg.thresholds = None
    /\ FV("Coherence", 70) = 0
    /\ FV("Continuity", 70) + FV("Arc", 50) = 100
    /\ ~ret.val.Narrative_Collapse

\* the bias_cascade composite of the state under the default table, in 1e-4
BiasCascade4 ==
    35 * FV("Confirmation", 0) + 30 * FV("Dunning_Kruger", 0)
    + 25 * FV("Overconfidence", 0) + 10 * FV("Hindsight", 0)

\* the two flags of C14 as the claim gives them
C14_Flags ==
    /\ ret.kind = "ok"
    /\ ret.val.Bias_Cascade <=>
          /\ BiasCascade4 > 100 * CallThresholds["bias_cluster"]
          /\ FV("Delusionality", 0) > CallThresholds["delusionality"]
    /\ ret.val.Moral_Rigidity <=>
          /\ FV("Dogma_Fixation", 0) > CallThresholds["dogma"]
          /\ FV("Protagonist", 60) > 70

\* C14 as stated: for every detailed state and threshold configuration,
\* detect_flags returns Bias_Cascade = (bias_cascade composite > bias_cluster
\* threshold and Delusionality > delusionality threshold) and Moral_Rigidity =
\* (Dogma_Fixation > dogma threshold and Protagonist > 0.7).
C14_EveryConfiguration ==
    (op = "detect_flags" /\ "bias_cascade" \in DOMAIN WEIGHTS) => C14_Flags

\* C14 amended: the same two formulas, for every detailed state and every
\* threshold configuration that is None or defines bias_cluster, delusionality,
\* dogma and narrative_collapse, under a weight table that has bias_cascade.
C14_CompleteConfiguration ==
    (/\ op = "detect_flags"
     /\ "bias_cascade" \in DOMAIN WEIGHTS
     /\ Consulted \subseteq DOMAIN CallThresholds) => C14_Flags

\* Dogma_Fixation 0.7 is above the configured dogma threshold 0.5 and
\* Protagonist 0.7 is above 0.5 too, but not above the literal 0.7: no flag
C14_Witness ==
    /\ op = "detect_flags"
    /\ ret.kind = "ok"
    /\ arg.thresholds # None
    /\ CallThresholds["dogma"] = 50
    /\ FV("Dogma_Fixation", 0) = 70
    /\ FV("Protagonist", 60) = 70
    /\ ~ret.val.Moral_Rigidity

\* C15: the result of detect_flags does not depend on the ego_osc and
\* overthink thresholds: every configuration that agrees with the one of the
\* call on bias_cluster, delusionality, dogma and narrative_collapse gives the
\* same result, whether it differs in or omits ego_osc or overthink.
C15_UnusedThresholds ==
    op = "detect_flags" =>
        \A t2 \in ThresholdConfigs :
            LET th2 == IF t2 = None THEN DefaultThresholds ELSE t2 IN
            (/\ DOMAIN th2 \cap Consulted = DOMAIN CallThresholds \cap Consulted
             /\ \A k \in DOMAIN th2 \cap Consulted : th2[k] = CallThresholds[k])
            => detect_flags(dstate, t2) = ret

\* a call that returned flags with a dict that has no ego_osc and no overthink
\* while another configuration has the same four thresholds and both keys
C15_Witness ==
    /\ op = "detect_flags"
    /\ ret.kind = "ok"
    /\ arg.thresholds # None
    /\ DOMAIN arg.thresholds = Consulted
    /\ ret.val.Narrative_Collapse
    /\ \E t2 \in ThresholdConfigs :
          /\ t2 # None
          /\ {"ego_osc", "overthink"} \subseteq DOMAIN t2
          /\ \A k \in Consulted : k \in DOMAIN t2 /\ t2[k] = arg.thresholds[k]

-----------------------------------------------------------------------------
(* Properties of recommend_debiasing (SpecRecommend)                       *)

\* the list made of the blocks of the positions selected by m1, m2 and m3, in
\* that order, with the warning as last element exactly when warn holds
IsBlocksThenWarning(list, m1, m2, m3, warn) ==
    LET n1 == IF m1 THEN Len(Position1Block) ELSE 0
        n2 == IF m2 THEN Len(Position2Block) ELSE 0
        n3 == IF m3 THEN Len(Position3Block) ELSE 0
        nw == IF warn THEN 1 ELSE 0
    IN  /\ Len(list) = n1 + n2 + n3 + nw
        /\ m1 => SubSeq(list, 1, n1) = Position1Block
        /\ m2 => SubSeq(list, n1 + 1, n1 + n2) = Position2Block
        /\ m3 => SubSeq(list, n1 + n2 + 1, n1 + n2 + n3) = Position3Block
        /\ warn => list[Len(list)] = CascadeWarning
        /\ \A i \in 1..(n1 + n2 + n3) : list[i] # CascadeWarning

\* the label of the call has the token sequence sub as a substring
LabelHas(sub) ==
    \E i \in 1..Len(arg.position) :
        /\ i + Len(sub) - 1 <= Len(arg.position)
        /\ \A j \in 1..Len(sub) : arg.position[i + j - 1] = sub[j]

\* C16 as stated: the list is the Position 1 block if the label matches
\* Position_1, then the Position 2 block if it matches Position_2, then the
\* Position 3 block if it matches Position_3, and last the warning if and only
\* if the bias_cascade composite is strictly greater than 0.6.
C16_PositionSubstrings ==
    (op = "recommend_debiasing" /\ ret.kind = "ok") =>
        IsBlocksThenWarning(ret.val,
                            LabelHas(<<"Position", "_", "1">>),
                            LabelHas(<<"Position", "_", "2">>),
                            LabelHas(<<"Position", "_", "3">>),
                            BiasCascade4 > 6000)

\* C16 amended: a label matches position 1 when it contains "Position_1" or
\* "Epistemic Arrogance", position 2 when it contains "Position_2" or "Meta
\* Awareness", position 3 when it contains "Position_3" or "Integrated
\* Competence"; the list is the matched blocks in the order 1, 2, 3 and last
\* the warning if and only if the bias_cascade composite is above 0.6.
C16_SubstringsOrNames ==
    (op = "recommend_debiasing" /\ ret.kind = "ok") =>
        IsBlocksThenWarning(ret.val,
                            LabelHas(<<"Position", "_", "1">>)
                                \/ LabelHas(<<"Epistemic", " ", "Arrogance">>),
                            LabelHas(<<"Position", "_", "2">>)
                                \/ LabelHas(<<"Meta", " ", "Awareness">>),
                            LabelHas(<<"Position", "_", "3">>)
                                \/ LabelHas(<<"Integrated", " ", "Competence">>),
                            BiasCascade4 > 6000)

\* a label that names position 3 before position 1, on a state with a high
\* bias cascade: the blocks 1 and 3 in that order, then the warning
C16_Witness ==
    /\ op = "recommend_debiasing"
    /\ ret.kind = "ok"
    /\ arg.position = <<"Position", "_", "3", "/", "Position", "_", "1">>
    /\ BiasCascade4 > 6000
    /\ ret.val = Position1Block \o Position3Block \o <<CascadeWarning>>

\* the label of the call matches none of the three positions
Unrecognized ==
    /\ ~LabelHas(<<"Position", "_", "1">>) /\ ~LabelHas(<<"Epistemic", " ", "Arrogance">>)
    /\ ~LabelHas(<<"Position", "_", "2">>) /\ ~LabelHas(<<"Meta", " ", "Awareness">>)
    /\ ~LabelHas(<<"Position", "_", "3">>) /\ ~LabelHas(<<"Integrated", " ", "Competence">>)

\* C17 as stated: for a label matching none of the three positions,
\* recommend_debiasing does not fail and returns the empty list, for every
\* state.
C17_EmptyForEveryState ==
    (op = "recommend_debiasing" /\ Unrecognized) => ret = Ok(<<>>)

\* C17 amended: for a label matching none of the three positions and a weight
\* table that has bias_cascade, recommend_debiasing does not fail and returns
\* no position block: the empty list when the bias_cascade composite of the
\* state is at most 0.6, and the list of the warning alone when it is above.
C17_EmptyOrWarning ==
    (op = "recommend_debiasing" /\ Unrecognized /\ "bias_cascade" \in DOMAIN WEIGHTS) =>
        /\ ret.kind = "ok"
        /\ (BiasCascade4 <= 6000) => ret.val = <<>>
        /\ (BiasCascade4 > 6000) => ret.val = <<CascadeWarning>>

\* an unrecognized label on a state whose bias_cascade composite is exactly
\* 0.6: the empty list
C17_Witness ==
    /\ op = "recommend_debiasing"
    /\ Unrecognized
    /\ arg.position = <<"Epistemic", "_", "Arrogance">>
    /\ BiasCascade4 = 6000
    /\ ret = Ok(<<>>)

-----------------------------------------------------------------------------
(* Properties of the interaction metrics and of persistence (SpecMinimal)  *)

\* a fraction in [0,1]
RInUnit(r) == 0 <= r.n /\ r.n <= r.d

\* C18: for every MinimalState with S, H, B in [0,1],
\* compute_nonlinear_interactions returns exactly the five metrics
\* Bias_Meaningless = (1 - S if S < 0.3 else 0), Energy_Stress = 1 - H,
\* Delusional_Defense = (B*S if B > 0.7 else 0), Stability = S*H*(1 - B),
\* Arrogance_Risk = S*B, and each of the five lies in [0,1].
C18_Interactions ==
    op = "compute_nonlinear_interactions" =>
        LET S == mstate.S  H == mstate.H  B == mstate.B  m == ret.val IN
        /\ DOMAIN m = {"Bias_Meaningless", "Energy_Stress", "Delusional_Defense",
                       "Stability", "Arrogance_Risk"}
        /\ m.Bias_Meaningless.n * 100 =
               (IF S < 30 THEN 100 - S ELSE 0) * m.Bias_Meaningless.d
        /\ m.Energy_Stress.n * 100 = (100 - H) * m.Energy_Stress.d
        /\ m.Delusional_Defense.n * 10000 =
               (IF B > 70 THEN B * S ELSE 0) * m.Delusional_Defense.d
        /\ m.Stability = Rat(S * H * (100 - B), 1000000)
        /\ m.Arrogance_Risk.n * 10000 = S * B * m.Arrogance_Risk.d
        /\ \A k \in DOMAIN m : RInUnit(m[k])

\* a state with S below 0.3 and B above 0.7: both conditional metrics are set
C18_Witness ==
    /\ op = "compute_nonlinear_interactions"
    /\ mstate.S < 30 /\ mstate.S > 0
    /\ mstate.B > 70
    /\ ret.val.Bias_Meaningless.n > 0
    /\ ret.val.Delusional_Defense.n > 0

\* C20: for every MinimalState m, load_state applied to the file written by
\* save_state(m) returns a state whose S, H and B are exactly those of m.
C20_RoundTrip ==
    (op = "load_state" /\ fs.state # NoFile) =>
        /\ ret.kind = "ok"
        /\ ret.val.S = mstate.S
        /\ ret.val.H = mstate.H
        /\ ret.val.B = mstate.B

\* the round trip of the state of the example, S = 0.85, H = 0.75, B = 0.85
C20_Witness ==
    /\ op = "load_state"
    /\ mstate = [S |-> 85, H |-> 75, B |-> 85]
    /\ fs.state # NoFile
    /\ fs.state.S = <<"0", ".", "8", "5">>
    /\ ret = Ok(mstate)

-----------------------------------------------------------------------------
(* Properties of construction (SpecConstruct)                              *)

\* field is the clamped value of the argument x
IsClamped(field, x) ==
    /\ 0 <= field /\ field <= ONE
    /\ (x < 0) => field = 0
    /\ (x > ONE) => field = ONE
    /\ (0 <= x /\ x <= ONE) => field = x

\* C19: constructing a MinimalState or RefinedState (directly, via
\* create_state / create_refined_state, or via load_state) with any real
\* arguments never raises and yields a record whose every field lies in [0,1]:
\* a value below 0 becomes 0, a value above 1 becomes 1, and a value already
\* in [0,1] is stored unchanged.
C19_ConstructionClamps ==
    /\ op \in {"MinimalState", "create_state"} =>
          /\ ret.kind # "raise"
          /\ IsClamped(mstate.S, arg[1])
          /\ IsClamped(mstate.H, arg[2])
          /\ IsClamped(mstate.B, arg[3])
    /\ op \in {"RefinedState", "create_refined_state"} =>
          /\ ret.kind # "raise"
          /\ IsClamped(rstate.S, arg[1])
          /\ IsClamped(rstate.H_somatic, arg[2])
          /\ IsClamped(rstate.H_cognitive, arg[3])
          /\ IsClamped(rstate.B, arg[4])
    /\ op = "create_state" => ret.val = mstate
    /\ op = "create_refined_state" => ret.val = rstate
    /\ (op = "load_state" /\ fs.state # NoFile) =>
          /\ ret.kind = "ok"
          /\ \A x \in RawGrid :
                /\ (fs.state.S = FloatRepr(x)) => IsClamped(ret.val.S, x)
                /\ (fs.state.H = FloatRepr(x)) => IsClamped(ret.val.H, x)
                /\ (fs.state.B = FloatRepr(x)) => IsClamped(ret.val.B, x)

\* load_state of a document with a negative S, a B above 1 and an H in range
C19_Witness ==
    /\ op = "load_state"
    /\ fs.state # NoFile
    /\ fs.state.S[1] = "-"
    /\ fs.state.B = <<"1", ".", "0", "5">>
    /\ fs.state.H = <<"0", ".", "7", "5">>
    /\ ret = Ok([S |-> 0, H |-> 75, B |-> ONE])

-----------------------------------------------------------------------------
(* Properties of the demo and of the labels (SpecRefined, SpecDetailed)    *)

\* the refined state of the demo's example 3, "Cognitive Collapse"
CognitiveCollapseExample == [S |-> 70, H_somatic |-> 60, H_cognitive |-> 20, B |-> 50]

\* C25: classify_refined_position applied to the refined state S=0.7,
\* H_somatic=0.6, H_cognitive=0.2, B=0.5 returns the label Cognitive_Collapse.
C25_CognitiveCollapseExample ==
    (op = "classify_refined_position" /\ rstate = CognitiveCollapseExample) =>
        ret = Ok("Cognitive_Collapse")

\* C26: for every RefinedState with fields in [0,1] and H_cognitive < 0.3,
\* bias_amplification returns a value greater than or equal to the baseline B
\* and at most 3 times the baseline.
C26_NeverLowersBias ==
    (op = "bias_amplification" /\ InUnit(rstate) /\ rstate.H_cognitive < 30) =>
        /\ ret.kind = "ok"
        /\ ret.val.n * ONE >= rstate.B * ret.val.d
        /\ ret.val.n * ONE <= 3 * rstate.B * ret.val.d

\* label is key with every underscore replaced by a space
IsSpacedKey(label, key) ==
    /\ Len(label) = Len(key)
    /\ \A j \in 1..Len(key) : label[j] = (IF key[j] = "_" THEN " " ELSE key[j])

\* C27 as stated: the label returned by classify_triangle_position is one of
\* the three keys of the score map returned with it, and the score stored under
\* that label is the maximum of the three scores.
C27_LabelIsKey ==
    (op = "classify_triangle_position" /\ ret.kind = "ok") =>
        \E i \in 1..Len(ret.val[2]) :
            /\ ret.val[2][i][1] = ret.val[1]
            /\ \A j \in 1..Len(ret.val[2]) : ret.val[2][j][2] <= ret.val[2][i][2]

\* C27 amended: the label is one of the three keys of the score map with its
\* underscores replaced by spaces, so it is not itself a key of the map; the
\* score stored under that key is the maximum of the three scores.
C27_LabelIsSpacedKey ==
    (op = "classify_triangle_position" /\ ret.kind = "ok") =>
        /\ Len(ret.val[2]) = 3
        /\ \E i \in 1..3 :
              /\ IsSpacedKey(ret.val[1], ret.val[2][i][1])
              /\ \A j \in 1..3 : ret.val[2][j][2] <= ret.val[2][i][2]
        /\ \A i \in 1..3 : ret.val[2][i][1] # ret.val[1]

\* Position 2 wins with a score strictly above the two others
C27_Witness ==
    /\ op = "classify_triangle_position"
    /\ ret.kind = "ok"
    /\ ret.val[1] = <<"Position", " ", "2", " ", "Meta", " ", "Awareness", " ", "Trap">>
    /\ ret.val[2][2][1] = Position_2_Meta_Awareness_Trap
    /\ ret.val[2][2][2] > ret.val[2][1][2]
    /\ ret.val[2][2][2] > ret.val[2][3][2]

-----------------------------------------------------------------------------
(* Properties of the dynamics (SpecDynamics)                               *)

\* the place of a key name in the lexicographic order of the names
Rank(k) == CHOOSE i \in DOMAIN LexOrder : LexOrder[i] = k

\* the row of the key k of the state: one more than the number of keys of the
\* state that sort before it
RowOf(k) == 1 + Cardinality({k2 \in DOMAIN dstate : Rank(k2) < Rank(k)})

\* the variables no rule of the derivative function names on its left side
NeverDynamic == {"Love", "Lucidity", "Recursive_Overthinking"}

\* C21: in one simulate_trajectory run the ordering is the sorted key list of
\* the initial state, whatever the insertion order of the dict: the result has
\* one row per key, row i is the trajectory of the i-th sorted key (a constant
\* for a key without dynamics, non-increasing for Fear), one sample per time,
\* and its first sample equals that key's initial value.
C21_SortedOrdering ==
    (op = "simulate_trajectory" /\ ret.kind = "ok") =>
        /\ Len(ret.val.y) = Cardinality(DOMAIN dstate)
        /\ Len(ret.val.t) = arg.n_points
        /\ \A k \in DOMAIN dstate :
              LET row == ret.val.y[RowOf(k)] IN
              /\ Len(row) = arg.n_points
              /\ row[1] = 10 * dstate[k]
              /\ k \in NeverDynamic => \A j \in DOMAIN row : row[j] = row[1]
              /\ k = "Fear" => \A j \in 1..(Len(row) - 1) : row[j + 1] <= row[j]

\* a dict whose keys were inserted in reverse order, Fear among them with a
\* value that differs from that of every other key
C21_Witness ==
    /\ op = "simulate_trajectory"
    /\ ret.kind = "ok"
    /\ Len(arg.keys) >= 2
    /\ Rank(arg.keys[1]) > Rank(arg.keys[2])
    /\ "Fear" \in DOMAIN dstate
    /\ dstate["Fear"] = 80
    /\ \A k \in DOMAIN dstate : k # "Fear" => dstate[k] # 80
    /\ ret.val.y[RowOf("Fear")][1] = 800

\* the variable k of the call has no rule that applies to it
NoRule(k, keys) ==
    \/ k \notin {"Fear", "Joy", "Ego_Oscillation", "Meta_Cognition", "Confirmation"}
    \/ (k = "Ego_Oscillation" /\ "Lucidity" \notin keys)
    \/ (k = "Meta_Cognition" /\ "Confirmation" \notin keys)
    \/ (k = "Confirmation" /\ "Meta_Cognition" \notin keys)

\* C22: the derivative is exactly 0 for every variable other than Fear, Joy,
\* Ego_Oscillation, Meta_Cognition and Confirmation, for Ego_Oscillation when
\* Lucidity is absent, and for Meta_Cognition (Confirmation) when Confirmation
\* (Meta_Cognition) is absent; every such variable keeps its initial value at
\* every sample of a trajectory.
C22_Frame ==
    /\ (op = "derivatives" /\ ret.kind = "ok") =>
          \A i \in DOMAIN arg.state_keys :
              NoRule(arg.state_keys[i], DOMAIN dstate) => ret.val[i] = 0
    /\ (op = "simulate_trajectory" /\ ret.kind = "ok") =>
          \A k \in DOMAIN dstate :
              NoRule(k, DOMAIN dstate) =>
                  \A j \in 1..arg.n_points : ret.val.y[RowOf(k)][j] = 10 * dstate[k]

\* Ego_Oscillation without Lucidity, with Recursive_Overthinking at 1.0, and
\* Meta_Cognition at 1.0 without Confirmation: both stay where they started
C22_Witness ==
    /\ op = "simulate_trajectory"
    /\ ret.kind = "ok"
    /\ arg.n_points = 11
    /\ DOMAIN dstate = {"Ego_Oscillation", "Recursive_Overthinking", "Meta_Cognition"}
    /\ dstate["Recursive_Overthinking"] = 100
    /\ dstate["Meta_Cognition"] = 100
    /\ dstate["Ego_Oscillation"] = 80
    /\ ret.val.y[RowOf("Ego_Oscillation")][11] = 800
    /\ ret.val.y[RowOf("Meta_Cognition")][11] = 1000

\* C23: for an initial state containing Fear = 0.8, d(Fear)/dt = -0.1*Fear is
\* strictly negative while Fear > 0, and along the trajectory over [0,10] the
\* sampled Fear values are strictly decreasing and stay positive.
C23_FearDecays ==
    /\ (op = "derivatives" /\ ret.kind = "ok" /\ "Fear" \in DOMAIN dstate) =>
          \A i \in DOMAIN arg.state_keys :
              arg.state_keys[i] = "Fear" =>
                  /\ ret.val[i] * 10 = 0 - arg.y[i] * DerivUnit
                  /\ arg.y[i] > 0 => ret.val[i] < 0
    /\ (op = "simulate_trajectory" /\ ret.kind = "ok" /\ "Fear" \in DOMAIN dstate
          /\ dstate["Fear"] = 80) =>
          LET row == ret.val.y[RowOf("Fear")] IN
          /\ \A j \in DOMAIN row : row[j] > 0
          /\ \A i \in DOMAIN row, j \in DOMAIN row : i < j => row[j] < row[i]

\* Fear = 0.8 alone, eleven samples: the last is below the first and positive
C23_Witness ==
    /\ op = "simulate_trajectory"
    /\ ret.kind = "ok"
    /\ dstate = [k \in {"Fear"} |-> 80]
    /\ arg.n_points = 11
    /\ ret.val.y[1][1] = 800
    /\ ret.val.y[1][11] < 400
    /\ ret.val.y[1][11] > 0

\* C24 as stated: if the solve reports failure, simulate_trajectory fails with
\* an IntegrationError that carries the solver's message, returns no
\* trajectory, solves exactly once and with the method it was given.
C24_IntegrationError ==
    (op = "simulate_trajectory" /\ ~arg.solver.success) =>
        /\ ret.kind = "raise"
        /\ ret.exc = "IntegrationError"
        /\ ret.msg[2] = arg.solver.message
        /\ arg.solve_ivp_calls = <<arg.method>>

\* C24 amended: the failure is Python's RuntimeError with the message "ODE
\* integration failed: " followed by the solver's message; no trajectory is
\* returned, the solve is made exactly once and with the method given.
C24_RuntimeError ==
    (op = "simulate_trajectory" /\ ~arg.solver.success) =>
        /\ ret.kind = "raise"
        /\ ret.exc = "RuntimeError"
        /\ ret.msg = <<"ODE integration failed: ", arg.solver.message>>
        /\ arg.solve_ivp_calls = <<arg.method>>

\* a failed solve with the method BDF
C24_Witness ==
    /\ op = "simulate_trajectory"
    /\ ~arg.solver.success
    /\ arg.method = "BDF"
    /\ ret.kind = "raise"
    /\ arg.solve_ivp_calls = <<"BDF">>

====
